---- MODULE Spec2Model ----
(***************************************************************************)
(* Model of the geodesk bridge (src/bridge/geodesk_bridge.{h,cpp}):        *)
(* FeatureStore (query, query_amenities), FeatureResult (count, get,       *)
(* to_vector, add_feature) and the cxx factory functions.                  *)
(*                                                                         *)
(* The geodesk library itself (Features, Feature, Tags, Nodes, Box) is an  *)
(* external collaborator.  It is represented by a fixed read-only dataset  *)
(* and by the operators Store*, which stand for the library calls made at  *)
(* the cited lines.  Coordinates are small integers standing for doubles.  *)
(***************************************************************************)
EXTENDS Integers, Sequences, FiniteSets, TLC

\* Number of FeatureResult objects that can be alive at the same time.
MaxResults == 2
\* Largest index handed to FeatureResult::get.
MaxIndex == 5

VARIABLES
    pImpl,      \* FeatureStore::pImpl: NullImpl or the Impl holding `features`
    results,    \* heap of FeatureResult objects, by address 1..MaxResults
    lastCall    \* the most recent boundary call, its arguments and its outcome

vars == <<pImpl, results, lastCall>>

Slots == 1..MaxResults

(***************************************************************************)
(* The external store: a dataset and the library calls the bridge makes.   *)
(***************************************************************************)

Nd(i, x, y) == [id |-> i, lon |-> x, lat |-> y]

\* The content of the GOL file, in the store's iteration order.  `nodes` is
\* what feature.nodes() would enumerate, `area` whether the store classifies
\* the feature as an area.
Dataset ==
    << [id |-> 1, type |-> "node", area |-> FALSE, lon |-> 1, lat |-> 1,
        tags |-> << <<"amenity", "cafe">>, <<"name", "Joe">> >>,
        nodes |-> << >>],
       [id |-> 2, type |-> "way", area |-> TRUE, lon |-> 2, lat |-> 2,
        tags |-> << <<"amenity", "cafe">>, <<"building", "yes">>,
                    <<"outdoor_seating", "yes">> >>,
        nodes |-> << Nd(21, 2, 2), Nd(20, 3, 2), Nd(22, 2, 3), Nd(21, 2, 2) >>],
       [id |-> 3, type |-> "node", area |-> FALSE, lon |-> 5, lat |-> 5,
        tags |-> << <<"name", "">>, <<"amenity", "pub">> >>,
        nodes |-> << >>],
       [id |-> 4, type |-> "relation", area |-> TRUE, lon |-> 1, lat |-> 2,
        tags |-> << <<"type", "multipolygon">>, <<"amenity", "cafe">>,
                    <<"name", "Mall">> >>,
        nodes |-> << Nd(41, 1, 2), Nd(42, 1, 3) >>],
       [id |-> 5, type |-> "way", area |-> FALSE, lon |-> 6, lat |-> 1,
        tags |-> << >>,
        nodes |-> << >>] >>

NullImpl == [open |-> FALSE, features |-> << >>]

\* Impl::Impl: `features(gol_path.c_str())` opens the GOL file or throws.
GolPaths == {"planet.gol", "missing.gol"}
StoreOpen(gol_path) ==
    IF gol_path = "planet.gol"
    THEN [thrown |-> FALSE, what |-> "", impl |-> [open |-> TRUE, features |-> Dataset]]
    ELSE [thrown |-> TRUE, what |-> "file not found", impl |-> NullImpl]

\* The filter grammar of the store, restricted to the expressions the model
\* issues: the selected feature kinds and the tag clauses.  Any other string
\* is a syntax error.
HasTag(feature, key) == \E k \in 1..Len(feature.tags) : feature.tags[k][1] = key
HasTagValue(feature, key, value) ==
    \E k \in 1..Len(feature.tags) : feature.tags[k] = <<key, value>>
IsNA(feature) == feature.type = "node" \/ feature.area

GoqlKnown ==
    {"*", "na[amenity=cafe]", "na[amenity=pub]", "na[amenity=cafe][name]"}

GoqlMatches(goql, feature) ==
    CASE goql = "*" -> TRUE
      [] goql = "na[amenity=cafe]" ->
            IsNA(feature) /\ HasTagValue(feature, "amenity", "cafe")
      [] goql = "na[amenity=pub]" ->
            IsNA(feature) /\ HasTagValue(feature, "amenity", "pub")
      [] goql = "na[amenity=cafe][name]" ->
            IsNA(feature) /\ HasTagValue(feature, "amenity", "cafe")
                /\ HasTag(feature, "name")
      [] OTHER -> FALSE

\* Features::operator()(const char*): the subset matching the filter, or a
\* thrown syntax error.
StoreFilter(features, goql) ==
    IF goql \in GoqlKnown
    THEN [thrown |-> FALSE, what |-> "",
          features |-> SelectSeq(features, LAMBDA f : GoqlMatches(goql, f))]
    ELSE [thrown |-> TRUE, what |-> "syntax error", features |-> << >>]

\* Box::ofWSEN(west, south, east, north)
BoxOfWSEN(west, south, east, north) ==
    [minX |-> west, minY |-> south, maxX |-> east, maxY |-> north]

\* Features::operator()(const Box&): the features inside the box.  A box with
\* minX > maxX spans the antimeridian; one with minY > maxY is empty.
InBox(box, feature) ==
    /\ box.minY <= feature.lat /\ feature.lat <= box.maxY
    /\ IF box.minX <= box.maxX
       THEN box.minX <= feature.lon /\ feature.lon <= box.maxX
       ELSE feature.lon >= box.minX \/ feature.lon <= box.maxX
StoreBox(features, box) == SelectSeq(features, LAMBDA f : InBox(box, f))

\* Feature::operator[](key): the value of the tag, or the empty TagValue.
RECURSIVE TagLookup(_, _, _)
TagLookup(tags, key, k) ==
    IF k > Len(tags) THEN ""
    ELSE IF tags[k][1] = key THEN tags[k][2]
    ELSE TagLookup(tags, key, k + 1)
StoreTag(feature, key) == TagLookup(feature.tags, key, 1)

\* TagValue::operator bool: false for the empty TagValue.
TagValueBool(tagValue) == tagValue # ""

\* Feature::isWay()
IsWay(feature) == feature.type = "way"

(***************************************************************************)
(* Inputs of the boundary calls.                                           *)
(***************************************************************************)

BoundingBox(west, south, east, north) ==
    [west |-> west, south |-> south, east |-> east, north |-> north]

\* the whole dataset; a box with west > east
BBoxes == { BoundingBox(0, 0, 9, 9), BoundingBox(4, 0, 0, 9) }

GoqlQueries == {"*", "na[amenity=cafe]", "na[["}
AmenityTypes == {"cafe", "pub", "cafe][name", " cafe"}

\* A failure the store reports while the bridge iterates: at the `at`-th
\* feature, while reading the feature itself, its tags or its way nodes.
NoFault == [at |-> 0, stage |-> "none", what |-> ""]
Fault(a, s) == [at |-> a, stage |-> s, what |-> "read error"]
Faults == {NoFault, Fault(1, "feature"), Fault(2, "nodes"), Fault(3, "tags")}

(***************************************************************************)
(* FeatureResult (geodesk_bridge.cpp:89-106).  A FeatureResult is its      *)
(* `features` vector.                                                      *)
(***************************************************************************)

\* Variant of NewFeatureResult: one result object shared by all queries,
\* which still holds the records of an earlier query.
StaleFeatureResult ==
    IF \E s \in Slots : results[s].live
    THEN results[CHOOSE s \in Slots : results[s].live].features
    ELSE << >>

\* FeatureResult::FeatureResult() = default: an empty `features` vector.
NewFeatureResult == << >>

\* size_t FeatureResult::count() const
count(features) == Len(features)

\* Variant of get: the bound check rejects the last valid index too.
get_off_by_one(features, index) ==
    IF index + 1 >= Len(features)
    THEN [thrown |-> TRUE, exc |-> "std::out_of_range",
          what |-> "Feature index out of range", value |-> << >>]
    ELSE [thrown |-> FALSE, exc |-> "", what |-> "",
          value |-> << features[index + 1] >>]

\* Variant of get: the bound check uses > and index == size() hands out a
\* default-constructed record.
get_past_end(features, index) ==
    IF index > Len(features)
    THEN [thrown |-> TRUE, exc |-> "std::out_of_range",
          what |-> "Feature index out of range", value |-> << >>]
    ELSE [thrown |-> FALSE, exc |-> "", what |-> "",
          value |-> << IF index < Len(features) THEN features[index + 1]
                       ELSE [id |-> 0, type_name |-> "", lon |-> 0, lat |-> 0,
                             name |-> "", tag_keys |-> << >>,
                             tag_values |-> << >>, nodes |-> << >>] >>]

\* std::unique_ptr<FeatureData> FeatureResult::get(size_t index) const.
\* `value` is the returned pointer: a one-element sequence holding the copy,
\* empty when the call threw std::out_of_range.
get(features, index) ==
    IF index >= Len(features)
    THEN [thrown |-> TRUE, exc |-> "std::out_of_range",
          what |-> "Feature index out of range", value |-> << >>]
    ELSE [thrown |-> FALSE, exc |-> "", what |-> "",
          value |-> << features[index + 1] >>]

\* std::vector<FeatureData> FeatureResult::to_vector() const
to_vector(features) == features

\* Variant of add_feature: inserts at the front.
add_feature_front(features, feature) == << feature >> \o features

\* void FeatureResult::add_feature(FeatureData &&feature)
add_feature(features, feature) == Append(features, feature)

(***************************************************************************)
(* FeatureStore::query (geodesk_bridge.cpp:32-87).                         *)
(***************************************************************************)

\* Variant of NameOf: a placeholder instead of "" for a missing name.
NameOfPlaceholder(feature) ==
    LET nameTag == StoreTag(feature, "name")
    IN  IF TagValueBool(nameTag) THEN nameTag ELSE "(unnamed)"

\* lines 52-58: the name tag, or "" when the TagValue is false
NameOf(feature) ==
    LET nameTag == StoreTag(feature, "name")
    IN  IF TagValueBool(nameTag) THEN nameTag ELSE ""

\* Variant of CollectTags: values that are empty are not pushed.
RECURSIVE CollectTagsSkipEmpty(_, _, _)
CollectTagsSkipEmpty(tags, k, data) ==
    IF k > Len(tags) THEN data
    ELSE CollectTagsSkipEmpty(tags, k + 1,
            [data EXCEPT !.tag_keys = Append(@, tags[k][1]),
                         !.tag_values = IF tags[k][2] = "" THEN @
                                        ELSE Append(@, tags[k][2])])

\* lines 61-65: push every tag's key and value, in enumeration order
RECURSIVE CollectTags(_, _, _)
CollectTags(tags, k, data) ==
    IF k > Len(tags) THEN data
    ELSE CollectTags(tags, k + 1,
            [data EXCEPT !.tag_keys = Append(@, tags[k][1]),
                         !.tag_values = Append(@, tags[k][2])])

\* lines 71-77: push a NodeData for every node of the way
RECURSIVE CollectNodes(_, _, _)
CollectNodes(nodes, k, data) ==
    IF k > Len(nodes) THEN data
    ELSE CollectNodes(nodes, k + 1,
            [data EXCEPT !.nodes = Append(@,
                [id |-> nodes[k].id, lon |-> nodes[k].lon, lat |-> nodes[k].lat])])

\* Variant of WayNodes: feature.nodes() is enumerated for every feature.
WayNodesAlways(feature, data) == CollectNodes(feature.nodes, 1, data)

\* lines 69-78: nodes are collected for ways only
WayNodes(feature, data) ==
    IF IsWay(feature) THEN CollectNodes(feature.nodes, 1, data) ELSE data

\* lines 46-78: the FeatureData built for one feature
MakeFeatureData(feature) ==
    LET data0 == [id |-> feature.id, type_name |-> feature.type,
                  lon |-> feature.lon, lat |-> feature.lat,
                  name |-> NameOf(feature),
                  tag_keys |-> << >>, tag_values |-> << >>, nodes |-> << >>]
        data1 == CollectTags(feature.tags, 1, data0)
    IN  WayNodes(feature, data1)

\* Whether the store throws while the bridge handles the i-th feature: the
\* node enumeration (line 70) is entered for ways only.
Throws(fault, i, feature) ==
    /\ fault.at = i
    /\ fault.stage \in {"feature", "tags", "nodes"}
    /\ fault.stage = "nodes" => IsWay(feature)

\* lines 45-81: the loop over `filtered`; an exception leaves the loop with
\* the records added so far still in `result`.
RECURSIVE QueryLoop(_, _, _, _)
QueryLoop(filtered, i, result, fault) ==
    IF i > Len(filtered)
    THEN [thrown |-> FALSE, exc |-> "", what |-> "", result |-> result]
    ELSE IF Throws(fault, i, filtered[i])
    THEN [thrown |-> TRUE, exc |-> "std::exception", what |-> fault.what,
          result |-> result]
    ELSE QueryLoop(filtered, i + 1,
                   add_feature(result, MakeFeatureData(filtered[i])), fault)

\* Variant of QueryCatch: the handler swallows the exception and the records
\* collected so far are returned.
QueryCatchReturnsPartial(result, what) ==
    [thrown |-> FALSE, exc |-> "", what |-> "", result |-> result]

\* lines 82-84: the handler rethrows; `result` is destroyed during unwinding
\* and nothing is returned.
QueryCatch(result, what) ==
    [thrown |-> TRUE, exc |-> "std::runtime_error",
     what |-> "Query failed: " \o what, result |-> << >>]

\* FeatureStore::query(goql_query, bbox)
query(impl, goql_query, bbox, fault) ==
    LET result == NewFeatureResult
        box == BoxOfWSEN(bbox.west, bbox.south, bbox.east, bbox.north)
        sel == StoreFilter(impl.features, goql_query)
    IN  IF sel.thrown THEN QueryCatch(result, sel.what)
        ELSE LET filtered == StoreBox(sel.features, box)
                 run == QueryLoop(filtered, 1, result, fault)
             IN  IF run.thrown THEN QueryCatch(run.result, run.what)
                 ELSE [thrown |-> FALSE, exc |-> "", what |-> "",
                       result |-> run.result]

\* Variant of AmenityGoql: the amenity type is quoted.
AmenityGoqlQuoted(amenity_type) == "na[amenity='" \o amenity_type \o "']"

\* line 28: the GOQL built for an amenity type
AmenityGoql(amenity_type) == "na[amenity=" \o amenity_type \o "]"

\* FeatureStore::query_amenities(amenity_type, bbox)
query_amenities(impl, amenity_type, bbox, fault) ==
    LET goql_query == AmenityGoql(amenity_type)
    IN  query(impl, goql_query, bbox, fault)

(***************************************************************************)
(* Factory functions for cxx.rs (geodesk_bridge.cpp:108-133).              *)
(***************************************************************************)

\* create_feature_store / FeatureStore::FeatureStore
create_feature_store(gol_path) == StoreOpen(gol_path)

\* query_amenities_in_bbox(store, amenity_type, west, south, east, north)
query_amenities_in_bbox(impl, amenity_type, west, south, east, north, fault) ==
    LET bbox == BoundingBox(west, south, east, north)
    IN  query_amenities(impl, amenity_type, bbox, fault)

\* query_with_goql(store, goql_query, west, south, east, north)
query_with_goql(impl, goql_query, west, south, east, north, fault) ==
    LET bbox == BoundingBox(west, south, east, north)
    IN  query(impl, goql_query, bbox, fault)

\* result_count(result)
result_count(features) == count(features)

\* result_to_vec(result)
result_to_vec(features) == to_vector(features)

(***************************************************************************)
(* State machine.  A heap cell holds a FeatureResult's `features` vector;  *)
(* `via`, `arg` and `bbox` are history fields recording the request that   *)
(* produced it.                                                            *)
(***************************************************************************)

FreeCell == [live |-> FALSE, via |-> "", arg |-> "",
             bbox |-> BoundingBox(0, 0, 0, 0), features |-> << >>]

\* Variant of AllocResult: every query hands out the same result object.
ReuseResult == CHOOSE s \in Slots : \A t \in Slots : s <= t

\* std::make_unique<FeatureResult>() (line 35): a cell not in use
AllocResult ==
    CHOOSE s \in Slots :
        ~results[s].live /\ \A t \in Slots : ~results[t].live => s <= t

Init ==
    /\ pImpl = create_feature_store("planet.gol").impl
    /\ results = [s \in Slots |-> FreeCell]
    /\ lastCall = [op |-> "create_feature_store", arg |-> "planet.gol",
                   thrown |-> FALSE, what |-> ""]

\* create_feature_store(gol_path) once the previous store has been released
CreateFeatureStore ==
    \E gol_path \in GolPaths :
        /\ ~pImpl.open
        /\ LET out == create_feature_store(gol_path)
           IN  /\ pImpl' = out.impl
               /\ lastCall' = [op |-> "create_feature_store", arg |-> gol_path,
                               thrown |-> out.thrown, what |-> out.what]
        /\ UNCHANGED results

\* FeatureStore::~FeatureStore
DestroyFeatureStore ==
    /\ pImpl.open
    /\ pImpl' = NullImpl
    /\ lastCall' = [op |-> "destroy_feature_store"]
    /\ UNCHANGED results

\* The caller's side of a query: it receives the unique_ptr, or the exception.
QueryReturn(op, via, arg, bbox, fault, out) ==
    /\ IF out.thrown
       THEN /\ results' = results
            /\ lastCall' = [op |-> op, arg |-> arg, bbox |-> bbox, fault |-> fault,
                            thrown |-> TRUE, exc |-> out.exc, what |-> out.what,
                            ret |-> 0]
       ELSE LET p == AllocResult
            IN  /\ results' = [results EXCEPT ![p] =
                        [live |-> TRUE, via |-> via, arg |-> arg, bbox |-> bbox,
                         features |-> out.result]]
                /\ lastCall' = [op |-> op, arg |-> arg, bbox |-> bbox, fault |-> fault,
                                thrown |-> FALSE, exc |-> "", what |-> "",
                                ret |-> p]
    /\ UNCHANGED pImpl

QueryWithGoql ==
    \E goql_query \in GoqlQueries, b \in BBoxes, fault \in Faults :
        /\ pImpl.open
        /\ \E s \in Slots : ~results[s].live
        /\ QueryReturn("query_with_goql", "goql", goql_query, b, fault,
                query_with_goql(pImpl, goql_query,
                                b.west, b.south, b.east, b.north, fault))

QueryAmenitiesInBbox ==
    \E amenity_type \in AmenityTypes, b \in BBoxes, fault \in Faults :
        /\ pImpl.open
        /\ \E s \in Slots : ~results[s].live
        /\ QueryReturn("query_amenities_in_bbox", "amenity", amenity_type, b, fault,
                query_amenities_in_bbox(pImpl, amenity_type,
                                        b.west, b.south, b.east, b.north, fault))

ResultCount ==
    \E s \in Slots :
        /\ results[s].live
        /\ lastCall' = [op |-> "result_count", r |-> s,
                        value |-> result_count(results[s].features)]
        /\ UNCHANGED <<pImpl, results>>

ResultGet ==
    \E s \in Slots, index \in 0..MaxIndex :
        /\ results[s].live
        /\ LET out == get(results[s].features, index)
           IN  lastCall' = [op |-> "get", r |-> s, index |-> index,
                            thrown |-> out.thrown, exc |-> out.exc,
                            what |-> out.what, value |-> out.value]
        /\ UNCHANGED <<pImpl, results>>

ResultToVec ==
    \E s \in Slots :
        /\ results[s].live
        /\ lastCall' = [op |-> "result_to_vec", r |-> s,
                        value |-> result_to_vec(results[s].features)]
        /\ UNCHANGED <<pImpl, results>>

\* FeatureResult::~FeatureResult
DestroyFeatureResult ==
    \E s \in Slots :
        /\ results[s].live
        /\ results' = [results EXCEPT ![s] = FreeCell]
        /\ lastCall' = [op |-> "destroy_feature_result", r |-> s]
        /\ UNCHANGED pImpl

Next ==
    \/ CreateFeatureStore
    \/ DestroyFeatureStore
    \/ QueryWithGoql
    \/ QueryAmenitiesInBbox
    \/ ResultCount
    \/ ResultGet
    \/ ResultToVec
    \/ DestroyFeatureResult

Spec == Init /\ [][Next]_vars

(***************************************************************************)
(* Properties.  The expected values are computed from the dataset and the  *)
(* recorded request, not from the result under test.                       *)
(***************************************************************************)

QueryOps == {"query_with_goql", "query_amenities_in_bbox"}

LiveSlots == {s \in Slots : results[s].live}

\* The filter expression a request stands for.
FilterOf(via, arg) == IF via = "goql" THEN arg ELSE "na[amenity=" \o arg \o "]"
FilterOfCall(c) ==
    FilterOf(IF c.op = "query_with_goql" THEN "goql" ELSE "amenity", c.arg)

\* The features the store yields for a filter and a box, in its order.
Yielded(filter, bbox) ==
    SelectSeq(Dataset, LAMBDA f :
        /\ GoqlMatches(filter, f)
        /\ InBox([minX |-> bbox.west, minY |-> bbox.south,
                  maxX |-> bbox.east, maxY |-> bbox.north], f))
YieldedFor(cell) == Yielded(FilterOf(cell.via, cell.arg), cell.bbox)

\* The store reports the injected failure during the iteration of `yielded`.
FaultReached(fault, yielded) ==
    /\ fault.at \in 1..Len(yielded)
    /\ fault.stage = "nodes" => yielded[fault.at].type = "way"

\* C1: every live result of a successful query holds exactly one record per
\* feature the store yielded for its filter and box, in the store's order;
\* count() is the number of yielded features and the record at position i is
\* the one built from the i-th yielded feature; with nothing yielded the
\* result is empty.
C1_OneRecordPerFeatureInOrder ==
    \A s \in LiveSlots :
        LET fs == results[s].features
            y == YieldedFor(results[s])
        IN  /\ result_count(fs) = Len(y)
            /\ Len(result_to_vec(fs)) = Len(y)
            /\ \A i \in 1..Len(y) :
                  /\ i <= Len(fs)
                  /\ fs[i] = MakeFeatureData(y[i])
                  /\ fs[i].id = y[i].id
                  /\ fs[i].type_name = y[i].type
            /\ (Len(y) = 0 => result_to_vec(fs) = << >>)

\* C1 witness: a query that yielded all five features and one that yielded
\* none have both returned.
C1_Witness ==
    /\ lastCall.op \in QueryOps /\ ~lastCall.thrown
    /\ \E s \in LiveSlots : Len(YieldedFor(results[s])) = 5
    /\ \E s \in LiveSlots : Len(YieldedFor(results[s])) = 0

\* C2: a query during which the store reports a failure (a filter syntax
\* error, or a failure while iterating, also after some features have been
\* materialized) throws the wrapping error "Query failed: <cause>", returns
\* no result, and leaves the set of observable results as it was.
C2_AllOrNothing ==
    [][ lastCall'.op \in QueryOps =>
          LET c == lastCall'
              filter == FilterOfCall(c)
              syntax == filter \notin GoqlKnown
              failed == syntax \/ FaultReached(c.fault, Yielded(filter, c.bbox))
              cause == IF syntax THEN "syntax error" ELSE c.fault.what
          IN  failed =>
                /\ c.thrown
                /\ c.exc = "std::runtime_error"
                /\ c.what = "Query failed: " \o cause
                /\ c.ret = 0
                /\ results' = results ]_vars

\* C2 witness: the store failed at the third feature, after two records had
\* been added, and the query threw.
C2_Witness ==
    /\ lastCall.op \in QueryOps
    /\ lastCall.fault.at = 3
    /\ FaultReached(lastCall.fault, Yielded(FilterOfCall(lastCall), lastCall.bbox))
    /\ lastCall.thrown

\* C3: for every live result the accessors agree: to_vector has count()
\* elements and get(i) succeeds with element i of to_vector for all
\* i < count().
C3_AccessorsAgree ==
    \A s \in LiveSlots :
        LET fs == results[s].features
        IN  /\ Len(result_to_vec(fs)) = result_count(fs)
            /\ \A i \in 0..(result_count(fs) - 1) :
                  /\ ~get(fs, i).thrown
                  /\ get(fs, i).value = << result_to_vec(fs)[i + 1] >>

\* C3 witness: a non-empty result has been read by get after count and
\* to_vector were possible on it.
C3_Witness ==
    /\ lastCall.op = "get" /\ ~lastCall.thrown
    /\ lastCall.index = 2
    /\ result_count(results[lastCall.r].features) = 3

\* C4: get(index) with index >= count() throws std::out_of_range, returns no
\* record and leaves every result unchanged.
C4_GetOutOfRange ==
    [][ (lastCall'.op = "get"
           /\ lastCall'.index >= result_count(results[lastCall'.r].features)) =>
          /\ lastCall'.thrown
          /\ lastCall'.exc = "std::out_of_range"
          /\ lastCall'.value = << >>
          /\ results' = results ]_vars

\* C4 witness: get(count()) was called on a non-empty result, and get(0) on
\* an empty one is the same case with count() = 0.
C4_Witness ==
    /\ lastCall.op = "get" /\ lastCall.thrown
    /\ lastCall.index = result_count(results[lastCall.r].features)
    /\ lastCall.index > 0

\* C5: a returned result never changes while it is alive, whatever happens
\* next (further queries, failing or not, destruction of the store, reads of
\* any result); a successful query returns a result that did not exist
\* before.
C5_ResultsAreSnapshots ==
    [][ /\ \A s \in Slots :
              results[s].live =>
                 \/ results'[s] = results[s]
                 \/ lastCall'.op = "destroy_feature_result" /\ lastCall'.r = s
        /\ (lastCall'.op \in QueryOps /\ ~lastCall'.thrown) =>
              /\ ~results[lastCall'.ret].live
              /\ results'[lastCall'.ret].live ]_vars

\* C5 witness: a second query has returned while an earlier non-empty result
\* is still alive.
C5_Witness ==
    /\ lastCall.op \in QueryOps /\ ~lastCall.thrown
    /\ \E s \in LiveSlots : s # lastCall.ret /\ results[s].features # << >>

C7_AmenityIsGenericQuery ==
    lastCall.op = "query_amenities_in_bbox" =>
        LET c == lastCall
            ref == query_with_goql(pImpl, "na[amenity=" \o c.arg \o "]",
                                   c.bbox.west, c.bbox.south,
                                   c.bbox.east, c.bbox.north, c.fault)
        IN  /\ c.thrown = ref.thrown
            /\ c.exc = ref.exc
            /\ c.what = ref.what
            /\ ~c.thrown => results[c.ret].features = ref.result

\* C7 witness: an amenity type containing filter metacharacters was passed
\* and the query returned records.
C7_Witness ==
    /\ lastCall.op = "query_amenities_in_bbox"
    /\ lastCall.arg = "cafe][name"
    /\ ~lastCall.thrown
    /\ results[lastCall.ret].features # << >>

\* The NodeData sequence of the vertices of a store feature.
VerticesOf(f) ==
    [k \in 1..Len(f.nodes) |->
        [id |-> f.nodes[k].id, lon |-> f.nodes[k].lon, lat |-> f.nodes[k].lat]]

\* C8: in every live result, the record of a way lists all the way's
\* vertices (id, lon, lat) in the store's order, and the record of a node or
\* a relation has no nodes.
C8_WayNodesOnlyForWays ==
    \A s \in LiveSlots :
        LET fs == results[s].features
            y == YieldedFor(results[s])
        IN  \A i \in 1..Len(fs) :
               i <= Len(y) =>
                  IF y[i].type = "way"
                  THEN /\ Len(fs[i].nodes) = Len(y[i].nodes)
                       /\ \A k \in 1..Len(y[i].nodes) :
                             fs[i].nodes[k] = VerticesOf(y[i])[k]
                       /\ (Len(y[i].nodes) > 0 => fs[i].nodes # << >>)
                  ELSE fs[i].nodes = << >>

\* C8 witness: a live result holds the record of a way with vertices and the
\* record of a relation whose store object has member nodes.
C8_Witness ==
    \E s \in LiveSlots :
        LET y == YieldedFor(results[s])
        IN  /\ Len(results[s].features) = Len(y)
            /\ \E i \in 1..Len(y) : y[i].type = "way" /\ Len(y[i].nodes) > 0
            /\ \E i \in 1..Len(y) : y[i].type = "relation" /\ Len(y[i].nodes) > 0

C10_TagKeysValuesAligned ==
    \A s \in LiveSlots :
        LET fs == results[s].features
            y == YieldedFor(results[s])
        IN  \A i \in 1..Len(fs) :
               i <= Len(y) =>
                  /\ Len(fs[i].tag_keys) = Len(y[i].tags)
                  /\ Len(fs[i].tag_values) = Len(y[i].tags)
                  /\ \A k \in 1..Len(y[i].tags) :
                        /\ fs[i].tag_keys[k] = y[i].tags[k][1]
                        /\ fs[i].tag_values[k] = y[i].tags[k][2]

\* C10 witness: a live result holds a record with three tags two of which
\* have the same value, and a record of a feature without tags.
C10_Witness ==
    \E s \in LiveSlots :
        LET fs == results[s].features
        IN  /\ \E i \in 1..Len(fs) :
                  /\ Len(fs[i].tag_values) = 3
                  /\ fs[i].tag_values[2] = fs[i].tag_values[3]
            /\ \E i \in 1..Len(fs) : fs[i].id = 5

====
